---- MODULE Spec2Model ----
(***************************************************************************)
(* Connection routing and jump compositing of the desktop diagram editor   *)
(* (desktop-frontend/src/connection.py, desktop-frontend/src/canvas/       *)
(* painter.py).                                                            *)
(*                                                                         *)
(* Inputs (rectangles, grips, cursor, adjustment scalars) are integers in  *)
(* document units.  The planner halves a sum of two coordinates            *)
(* (connection.py:162), so every derived point (path, painter_path) is      *)
(* stored multiplied by Scale: a stored coordinate v stands for v / Scale  *)
(* units, which is exact for every integer input.                          *)
(***************************************************************************)
EXTENDS Integers, Sequences, FiniteSets

VARIABLES
    rect,          \* component id -> logical_rect of the component
    conn,          \* connection id -> fields of the Connection object
    connections,   \* the canvas' list of finished connections (ids, in order)
    pc,            \* position inside draw_connections: idle/plan/jump/paint
    idx,           \* loop index of draw_connections into connections
    planned,       \* list indexes whose calculate_path ran in this frame
    composited,    \* list indexes whose _generate_jump_path ran in this frame
    frames,        \* number of completed draw_connections calls
    painted,       \* the last paint call and what it handed to the painter
    saved          \* the last to_dict call and the record it returned

vars == <<rect, conn, connections, pc, idx, planned, composited, frames,
          painted, saved>>

----------------------------------------------------------------------------
(* Program constants *)

Scale == 2
MinStub == 10
BaseStart == 30
BaseEnd == 20
BaseMid == 20
JumpRadius == 6

NoComp == 0
NoGrip == -1
NoSide == "none"

Sides == {"top", "bottom", "left", "right"}

----------------------------------------------------------------------------
(* Bounds of the model *)

MaxConn == 2
MaxFrames == 2

----------------------------------------------------------------------------
(* Arithmetic helpers *)

Max(a, b) == IF a >= b THEN a ELSE b
Min(a, b) == IF a <= b THEN a ELSE b
Abs(a) == IF a >= 0 THEN a ELSE -a

Last(s) == s[Len(s)]

RECURSIVE Reverse(_)
Reverse(s) == IF s = <<>> THEN <<>> ELSE Append(Reverse(Tail(s)), Head(s))

\* a point of the input space (units) as a stored point
D(p) == <<Scale * p[1], Scale * p[2]>>

----------------------------------------------------------------------------
(* Component collaborator: rectangle accessors and the grip table *)

Left(r) == r.x
Top(r) == r.y
Right(r) == r.x + r.w
Bottom(r) == r.y + r.h

Grips == 0 .. 3

GripSide(g) ==
    CASE g = 0 -> "top"
      [] g = 1 -> "bottom"
      [] g = 2 -> "left"
      [] OTHER -> "right"

\* get_logical_grip_position: the grip's offset inside its component
GripLocal(r, g) ==
    CASE g = 0 -> <<r.w \div 2, 0>>
      [] g = 1 -> <<r.w \div 2, r.h>>
      [] g = 2 -> <<0, r.h \div 2>>
      [] OTHER -> <<r.w, r.h \div 2>>

GripPos(comp, g) ==
    <<rect[comp].x + GripLocal(rect[comp], g)[1],
      rect[comp].y + GripLocal(rect[comp], g)[2]>>

----------------------------------------------------------------------------
(* Connection.__init__ *)

NewConnection(comp, g, side) ==
    [ start_component |-> comp, start_grip_index |-> g, start_side |-> side,
      end_component |-> NoComp, end_grip_index |-> NoGrip, end_side |-> NoSide,
      snap_component |-> NoComp, snap_grip_index |-> NoGrip, snap_side |-> NoSide,
      current_pos |-> <<0, 0>>,
      path |-> <<>>,
      painter_path |-> <<>>,
      path_offset |-> 0, start_adjust |-> 0, end_adjust |-> 0 ]

----------------------------------------------------------------------------
(* Path Planner *)

get_start_pos(self) == GripPos(self.start_component, self.start_grip_index)

get_end_pos_snap_first(self) ==
    IF self.snap_component # NoComp
    THEN GripPos(self.snap_component, self.snap_grip_index)
    ELSE IF self.end_component # NoComp
    THEN GripPos(self.end_component, self.end_grip_index)
    ELSE self.current_pos

get_end_pos(self) ==
    IF self.end_component # NoComp
    THEN GripPos(self.end_component, self.end_grip_index)
    ELSE IF self.snap_component # NoComp
    THEN GripPos(self.snap_component, self.snap_grip_index)
    ELSE self.current_pos

guess_approach_side_facing_away(start, end) ==
    LET dx == end[1] - start[1]
        dy == end[2] - start[2]
    IN  IF Abs(dx) > Abs(dy)
        THEN (IF dx > 0 THEN "right" ELSE "left")
        ELSE (IF dy > 0 THEN "bottom" ELSE "top")

guess_approach_side(start, end) ==
    LET dx == end[1] - start[1]
        dy == end[2] - start[2]
    IN  IF Abs(dx) > Abs(dy)
        THEN (IF dx > 0 THEN "left" ELSE "right")
        ELSE (IF dy > 0 THEN "top" ELSE "bottom")

off_start_unclamped(self) == BaseStart + self.start_adjust

off_start(self) == Max(MinStub, BaseStart + self.start_adjust)

off_end(self) == Max(MinStub, BaseEnd + self.end_adjust)

off_mid_without_offset(self) == BaseMid

off_mid(self) == BaseMid + self.path_offset

sitem(self) == rect[self.start_component]

eitem(self) ==
    IF self.end_component # NoComp THEN rect[self.end_component]
    ELSE IF self.snap_component # NoComp THEN rect[self.snap_component]
    ELSE [x |-> get_end_pos(self)[1] - 10, y |-> get_end_pos(self)[2] - 10,
          w |-> 20, h |-> 20]

\* "Next to Start"
ns(self) ==
    LET s == get_start_pos(self)
        o == off_start(self)
    IN  CASE self.start_side = "top" -> <<s[1], s[2] - o>>
          [] self.start_side = "bottom" -> <<s[1], s[2] + o>>
          [] self.start_side = "left" -> <<s[1] - o, s[2]>>
          [] OTHER -> <<s[1] + o, s[2]>>

target_side(self) ==
    IF self.end_side # NoSide THEN self.end_side
    ELSE IF self.snap_side # NoSide THEN self.snap_side
    ELSE guess_approach_side(get_start_pos(self), get_end_pos(self))

\* "Previous to End"
pe(self) ==
    LET e == get_end_pos(self)
        o == off_end(self)
        t == target_side(self)
    IN  CASE t = "top" -> <<e[1], e[2] - o>>
          [] t = "bottom" -> <<e[1], e[2] + o>>
          [] t = "right" -> <<e[1] + o, e[2]>>
          [] OTHER -> <<e[1] - o, e[2]>>

ClearNonStrict(self) ==
    LET s == get_start_pos(self)
        e == get_end_pos(self)
    IN  CASE self.start_side = "right" -> s[1] + off_start(self) <= e[1] - off_end(self)
          [] self.start_side = "left" -> s[1] - off_start(self) >= e[1] + off_end(self)
          [] self.start_side = "top" -> s[2] - off_start(self) >= e[2] + off_end(self)
          [] OTHER -> s[2] + off_start(self) <= e[2] - off_end(self)

\* the strict clearance test of the four opposite-side pairs
Clear(self) ==
    LET s == get_start_pos(self)
        e == get_end_pos(self)
    IN  CASE self.start_side = "right" -> s[1] + off_start(self) < e[1] - off_end(self)
          [] self.start_side = "left" -> s[1] - off_start(self) > e[1] + off_end(self)
          [] self.start_side = "top" -> s[2] - off_start(self) > e[2] + off_end(self)
          [] OTHER -> s[2] + off_start(self) < e[2] - off_end(self)

\* direct two-bend route through the midline; stored coordinates
\* Scale * ((s + e) / 2 + path_offset) = s + e + Scale * path_offset
DirectH(self) ==
    LET s == get_start_pos(self)
        e == get_end_pos(self)
        mid_x == s[1] + e[1] + Scale * self.path_offset
    IN  << <<mid_x, Scale * s[2]>>, <<mid_x, Scale * e[2]>> >>

DirectV(self) ==
    LET s == get_start_pos(self)
        e == get_end_pos(self)
        mid_y == s[2] + e[2] + Scale * self.path_offset
    IN  << <<Scale * s[1], mid_y>>, <<Scale * e[1], mid_y>> >>

ViaYSwapped(self, y) ==
    << D(ns(self)), D(<<pe(self)[1], y>>), D(<<ns(self)[1], y>>), D(pe(self)) >>

\* ns, (ns.x, y), (pe.x, y), pe
ViaY(self, y) ==
    << D(ns(self)), D(<<ns(self)[1], y>>), D(<<pe(self)[1], y>>), D(pe(self)) >>

\* ns, (x, ns.y), (x, pe.y), pe
ViaX(self, x) ==
    << D(ns(self)), D(<<x, ns(self)[2]>>), D(<<x, pe(self)[2]>>), D(pe(self)) >>

\* ns, (ns.x, pe.y), pe
BendAtNsX(self) ==
    << D(ns(self)), D(<<ns(self)[1], pe(self)[2]>>), D(pe(self)) >>

BendAtPeXCornerSwapped(self) ==
    << D(ns(self)), D(<<ns(self)[1], pe(self)[2]>>), D(pe(self)) >>

\* ns, (pe.x, ns.y), pe
BendAtPeX(self) ==
    << D(ns(self)), D(<<pe(self)[1], ns(self)[2]>>), D(pe(self)) >>

Intermediate(self) ==
    LET t == target_side(self)
        si == sitem(self)
        ei == eitem(self)
        om == off_mid(self)
    IN  CASE self.start_side = "right" ->
              ( CASE t = "left" ->
                       IF Clear(self) THEN DirectH(self)
                       ELSE ViaY(self, Max(Bottom(si), Bottom(ei)) + om)
                  [] t = "top" -> BendAtNsX(self)
                  [] t = "bottom" -> BendAtNsX(self)
                  [] OTHER -> ViaX(self, Max(Right(si), Right(ei)) + om) )
          [] self.start_side = "left" ->
              ( CASE t = "right" ->
                       IF Clear(self) THEN DirectH(self)
                       ELSE ViaY(self, Max(Bottom(si), Bottom(ei)) + om)
                  [] t = "top" -> BendAtNsX(self)
                  [] t = "bottom" -> BendAtNsX(self)
                  [] OTHER -> ViaX(self, Min(Left(si), Left(ei)) - om) )
          [] self.start_side = "top" ->
              ( CASE t = "bottom" ->
                       IF Clear(self) THEN DirectV(self)
                       ELSE ViaX(self, Max(Right(si), Right(ei)) + om)
                  [] t = "left" -> BendAtPeX(self)
                  [] t = "right" -> BendAtPeX(self)
                  [] OTHER -> ViaY(self, Min(Top(si), Top(ei)) - om) )
          [] self.start_side = "bottom" ->
              ( CASE t = "top" ->
                       IF Clear(self) THEN DirectV(self)
                       ELSE ViaX(self, Max(Right(si), Right(ei)) + om)
                  [] t = "left" -> BendAtPeX(self)
                  [] t = "right" -> BendAtPeX(self)
                  [] OTHER -> ViaY(self, Max(Bottom(si), Bottom(ei)) + om) )
          [] OTHER -> <<>>

PlanPathAppending(self) ==
    self.path \o <<D(get_start_pos(self))>> \o Intermediate(self)
        \o <<D(get_end_pos(self))>>

PlanPathNoEnd(self) ==
    <<D(get_start_pos(self))>> \o Intermediate(self)

PlanPath(self) ==
    <<D(get_start_pos(self))>> \o Intermediate(self) \o <<D(get_end_pos(self))>>

calculate_path_writeback(c) ==
    conn' = [conn EXCEPT ![c].path = PlanPath(conn[c]),
                         ![c].start_adjust = off_start(conn[c]) - BaseStart]

calculate_path(c) ==
    conn' = [conn EXCEPT ![c].path = PlanPath(conn[c])]

----------------------------------------------------------------------------
(* Jump Compositor *)

\* the jump radius in stored coordinates
R == Scale * JumpRadius

\* Waypoint routes are axis-aligned (every route of the planner is, for the
\* four sides), so sqrt(dx^2 + dy^2) is |dx| + |dy| and the unit direction
\* is a pair of signs.
SegLength(p1, p2) == Abs(p2[1] - p1[1]) + Abs(p2[2] - p1[2])

Sgn(a) == IF a > 0 THEN 1 ELSE IF a < 0 THEN -1 ELSE 0

Unit(p1, p2) == <<Sgn(p2[1] - p1[1]), Sgn(p2[2] - p1[2])>>

Along(p1, u, d) == <<p1[1] + u[1] * d, p1[2] + u[2] * d>>

\* n / d lies in [0, 1]
InUnit(n, d) == IF d > 0 THEN 0 <= n /\ n <= d ELSE d <= n /\ n <= 0

\* QLineF.intersect(other_seg) = BoundedIntersection: the lines are not
\* parallel and the intersection lies on both segments, ends included
Bounded(p1, p2, op1, op2) ==
    LET ax == p2[1] - p1[1]
        ay == p2[2] - p1[2]
        bx == op1[1] - op2[1]
        by == op1[2] - op2[2]
        cx == p1[1] - op1[1]
        cy == p1[2] - op1[2]
        den == ay * bx - ax * by
    IN  /\ den # 0
        /\ InUnit(by * cx - bx * cy, den)
        /\ InUnit(ax * cy - ay * cx, den)

\* distance of the intersection point from p1 (only used when Bounded)
HitDist(p1, p2, op1, op2) ==
    LET ax == p2[1] - p1[1]
        ay == p2[2] - p1[2]
        bx == op1[1] - op2[1]
        by == op1[2] - op2[2]
        cx == p1[1] - op1[1]
        cy == p1[2] - op1[2]
        den == ay * bx - ax * by
    IN  (SegLength(p1, p2) * Abs(by * cx - bx * cy)) \div Abs(den)

InList(x, list) == \E k \in 1 .. Len(list) : list[k] = x

\* list.index(x)
IndexOf(x, list) == CHOOSE k \in 1 .. Len(list) :
                        list[k] = x /\ \A j \in 1 .. k - 1 : list[j] # x

YieldsToAll(self, other, other_connections) == other # self

YieldsToListedOnly(self, other, other_connections) ==
    /\ other # self
    /\ InList(self, other_connections)
    /\ IndexOf(self, other_connections) >= IndexOf(other, other_connections)

YieldsToReversed(self, other, other_connections) ==
    /\ other # self
    /\ ~ ( /\ InList(self, other_connections)
           /\ IndexOf(self, other_connections) > IndexOf(other, other_connections) )

\* `other` is a connection whose segments self looks for crossings with:
\* not self, and not one behind self in the list
YieldsTo(self, other, other_connections) ==
    /\ other # self
    /\ ~ ( /\ InList(self, other_connections)
           /\ IndexOf(self, other_connections) < IndexOf(other, other_connections) )

KeepAll(dist, length) == TRUE

\* filter out hits too close to the start or end of the segment
AwayFromCorners(dist, length) == R < dist /\ dist < length - R

\* the distances collected for segment p1 -> p2 of self against the paths
\* in cs (a set: duplicates and the order of collection do not survive the
\* sort and the de-duplication)
Intersections(cs, self, p1, p2, other_connections) ==
    { HitDist(p1, p2, cs[oj[1]].path[oj[2]], cs[oj[1]].path[oj[2] + 1]) :
        oj \in
          { oj \in UNION { { <<other_connections[k], j>> :
                                j \in 1 .. Len(cs[other_connections[k]].path) - 1 } :
                            k \in 1 .. Len(other_connections) } :
              /\ YieldsTo(self, oj[1], other_connections)
              /\ Bounded(p1, p2, cs[oj[1]].path[oj[2]], cs[oj[1]].path[oj[2] + 1])
              /\ AwayFromCorners(
                    HitDist(p1, p2, cs[oj[1]].path[oj[2]], cs[oj[1]].path[oj[2] + 1]),
                    SegLength(p1, p2)) } }

SetMin(S) == CHOOSE m \in S : \A x \in S : m <= x

FarEnoughAlways(d, last_d) == d > last_d

\* d - last_d > 2.2 * r, in stored coordinates
FarEnough(d, last_d) == 10 * (d - last_d) > 22 * R

\* the ascending distances, dropping each one too close to the last kept one
RECURSIVE CleanFrom(_, _)
CleanFrom(last_d, S) ==
    LET rest == { d \in S : FarEnough(d, last_d) }
    IN  IF rest = {} THEN <<>>
        ELSE <<SetMin(rest)>> \o CleanFrom(SetMin(rest), rest \ {SetMin(rest)})

CleanIntersections(S) ==
    IF S = {} THEN <<>>
    ELSE <<SetMin(S)>> \o CleanFrom(SetMin(S), S \ {SetMin(S)})

\* math.degrees(math.atan2(u.y, u.x)) of an axis direction
Angle(u) ==
    CASE u = <<1, 0>> -> 0
      [] u = <<0, 1>> -> 90
      [] u = <<-1, 0>> -> 180
      [] OTHER -> -90

\* the jumps of one segment without the lines between and after them
RECURSIVE SegmentOpsArcsOnly(_, _, _, _, _)
SegmentOpsArcsOnly(p1, p2, clean, k, current_dist) ==
    IF k > Len(clean) THEN <<>>
    ELSE << <<"arcTo", Along(p1, Unit(p1, p2), clean[k]), -Angle(Unit(p1, p2)) + 180, -180>> >>
             \o SegmentOpsArcsOnly(p1, p2, clean, k + 1, clean[k] + R)

\* the draw operations of one segment, walking the clean distances
RECURSIVE SegmentOps(_, _, _, _, _)
SegmentOps(p1, p2, clean, k, current_dist) ==
    IF k > Len(clean)
    THEN (IF current_dist < SegLength(p1, p2) THEN << <<"lineTo", p2>> >> ELSE <<>>)
    ELSE LET u == Unit(p1, p2)
             dist == clean[k]
             line == IF dist - R > current_dist
                     THEN << <<"lineTo", Along(p1, u, dist - R)>> >>
                     ELSE <<>>
             arc == << <<"arcTo", Along(p1, u, dist), -Angle(u) + 180, -180>> >>
         IN  line \o arc \o SegmentOps(p1, p2, clean, k + 1, dist + R)

RECURSIVE JumpOps(_, _, _, _)
JumpOps(cs, self, i, other_connections) ==
    IF i > Len(cs[self].path) - 1 THEN <<>>
    ELSE LET p1 == cs[self].path[i]
             p2 == cs[self].path[i + 1]
             this == IF 10 * SegLength(p1, p2) < Scale * 1
                     THEN <<>>
                     ELSE SegmentOps(p1, p2,
                              CleanIntersections(
                                  Intersections(cs, self, p1, p2, other_connections)),
                              1, 0)
         IN  this \o JumpOps(cs, self, i + 1, other_connections)

\* the painter_path built from cs[self].path
JumpPath(cs, self, other_connections) ==
    IF cs[self].path = <<>> THEN <<>>
    ELSE << <<"moveTo", cs[self].path[1]>> >> \o JumpOps(cs, self, 1, other_connections)

generate_jump_path(c, other_connections) ==
    conn' = [conn EXCEPT ![c].painter_path = JumpPath(conn, c, other_connections)]

update_path(c, other_connections) ==
    LET planned_conn == [conn EXCEPT ![c].path = PlanPath(conn[c])]
    IN  conn' = [planned_conn EXCEPT
                    ![c].painter_path = JumpPath(planned_conn, c, other_connections)]

----------------------------------------------------------------------------
(* Connection.paint: the geometry handed to the painter.  Pens, colours and *)
(* widths do not enter any waypoint or curve and are left out.  zoom is a   *)
(* percentage (100 stands for zoom = 1.0).                                  *)

Themes == {"light", "dark"}

VisualRetractDark == 10
VisualRetractLight == 4
VisualArrowSize == 15
MinZoom == 10

NotPainted == [of |-> 0]

\* QPainterPath.isEmpty: no element, or a lone moveTo
IsEmptyPath(pp) == Len(pp) <= 1

\* part 1: the path with its jumps, or the raw segments when there is none
DrawnCurve(self) ==
    IF IsEmptyPath(self.painter_path) /\ self.path # <<>>
    THEN [i \in 1 .. Len(self.path) - 1 |-> <<"drawLine", self.path[i], self.path[i + 1]>>]
    ELSE << <<"drawPath", self.painter_path>> >>

visual_retract(theme) == IF theme = "dark" THEN VisualRetractDark ELSE VisualRetractLight

retract_px_unguarded(self, theme, zoom) ==
    (Scale * visual_retract(theme) * 100) \div Max(MinZoom, zoom)

\* visual_retract / max(0.1, zoom), or 0 when the final segment is shorter;
\* stored coordinates (the zoom values of the model divide it exactly)
retract_px(self, theme, zoom) ==
    LET p_end == self.path[Len(self.path)]
        p_prev == self.path[Len(self.path) - 1]
        l == SegLength(p_prev, p_end)
    IN  IF l * Max(MinZoom, zoom) < Scale * visual_retract(theme) * 100
        THEN 0
        ELSE (Scale * visual_retract(theme) * 100) \div Max(MinZoom, zoom)

\* visual_arrow_size / max(0.1, zoom), stored coordinates
arrow_size(zoom) == (Scale * VisualArrowSize * 100) \div Max(MinZoom, zoom)

\* part 2: the eraser line p_tip -> p_end and the polygon p_tip, p1, p2;
\* nothing when the path has fewer than two points or a final segment of
\* length zero
Arrow(self, theme, zoom) ==
    IF Len(self.path) < 2 THEN <<>>
    ELSE LET p_end == self.path[Len(self.path)]
             p_prev == self.path[Len(self.path) - 1]
         IN  IF SegLength(p_prev, p_end) = 0 THEN <<>>
             ELSE LET u == Unit(p_prev, p_end)
                      perp == <<-u[2], u[1]>>
                      p_tip == Along(p_end, u, -retract_px(self, theme, zoom))
                      p_base == Along(p_tip, u, -arrow_size(zoom))
                      half == (2 * arrow_size(zoom)) \div 5
                      p1 == Along(p_base, perp, half)
                      p2 == Along(p_base, perp, -half)
                  IN  << <<"drawLine", p_tip, p_end>>,
                         <<"drawPolygon", p_tip, p1, p2>> >>

paint(c, theme, zoom) ==
    [of |-> c, theme |-> theme, zoom |-> zoom,
     curve |-> DrawnCurve(conn[c]),
     arrow |-> Arrow(conn[c], theme, zoom)]

----------------------------------------------------------------------------
(* Connection.to_dict *)

NotSaved == [of |-> 0]

\* component_to_id.get(component, -1)
IdOf(component_to_id, component) ==
    IF component \in DOMAIN component_to_id THEN component_to_id[component] ELSE -1

to_dict_with_path(self, component_to_id) ==
    [ start_id |-> IdOf(component_to_id, self.start_component),
      start_grip |-> self.start_grip_index,
      start_side |-> self.start_side,
      end_id |-> IdOf(component_to_id, self.end_component),
      end_grip |-> self.end_grip_index,
      end_side |-> self.end_side,
      path_offset |-> self.path_offset,
      start_adjust |-> self.start_adjust,
      end_adjust |-> self.end_adjust,
      path |-> self.path ]

to_dict(self, component_to_id) ==
    [ start_id |-> IdOf(component_to_id, self.start_component),
      start_grip |-> self.start_grip_index,
      start_side |-> self.start_side,
      end_id |-> IdOf(component_to_id, self.end_component),
      end_grip |-> self.end_grip_index,
      end_side |-> self.end_side,
      path_offset |-> self.path_offset,
      start_adjust |-> self.start_adjust,
      end_adjust |-> self.end_adjust ]

----------------------------------------------------------------------------
(* Interactive drag of one connection: endpoint setters and the planner *)

XRect == [x |-> 0, y |-> 0, w |-> 40, h |-> 40]

\* top-left corners of the second component: far right on the same row,
\* close by, left and below, above
YPositions == { <<200, 0>>, <<60, 20>>, <<-240, 200>>, <<-40, -300>> }

CursorPositions == { <<0, 0>>, <<300, 30>>, <<30, 300>>, <<10, -200>> }

StartAdjusts == { -40, 0 }
EndAdjusts == { -40, 0 }
PathOffsets == { -100, 0, 20 }

DragRects ==
    { [c \in {1, 2} |->
          IF c = 1 THEN XRect ELSE [x |-> p[1], y |-> p[2], w |-> 40, h |-> 40]]
      : p \in YPositions }

DragConnections ==
    { [c \in {1} |->
          [NewConnection(1, g, GripSide(g)) EXCEPT
              !.start_adjust = sa, !.end_adjust = ea, !.path_offset = po]]
      : g \in Grips, sa \in StartAdjusts, ea \in EndAdjusts, po \in PathOffsets }

Init ==
    /\ rect \in DragRects
    /\ conn \in DragConnections
    /\ connections = <<>>
    /\ pc = "idle"
    /\ idx = 0
    /\ planned = {}
    /\ composited = {}
    /\ frames = 0
    /\ painted = NotPainted
    /\ saved = NotSaved

FrameVars == <<connections, pc, idx, planned, composited, frames>>

OutVars == <<painted, saved>>

set_end_grip(c, component, grip_index, side) ==
    /\ conn' = [conn EXCEPT ![c].end_component = component,
                            ![c].end_grip_index = grip_index,
                            ![c].end_side = side]
    /\ UNCHANGED <<rect, FrameVars, OutVars>>

set_snap_target(c, component, grip_index, side) ==
    /\ conn' = [conn EXCEPT ![c].snap_component = component,
                            ![c].snap_grip_index = grip_index,
                            ![c].snap_side = side]
    /\ UNCHANGED <<rect, FrameVars, OutVars>>

clear_snap_target(c) ==
    /\ conn' = [conn EXCEPT ![c].snap_component = NoComp,
                            ![c].snap_grip_index = NoGrip,
                            ![c].snap_side = NoSide]
    /\ UNCHANGED <<rect, FrameVars, OutVars>>

\* the canvas writes the cursor position into current_pos while dragging
set_current_pos(c, pos) ==
    /\ conn' = [conn EXCEPT ![c].current_pos = pos]
    /\ UNCHANGED <<rect, FrameVars, OutVars>>

SetEndGrip == \E c \in DOMAIN conn, g \in Grips : set_end_grip(c, 2, g, GripSide(g))

SetSnapTarget == \E c \in DOMAIN conn, g \in Grips : set_snap_target(c, 2, g, GripSide(g))

ClearSnapTarget == \E c \in DOMAIN conn : clear_snap_target(c)

SetCurrentPos == \E c \in DOMAIN conn, pos \in CursorPositions : set_current_pos(c, pos)

CalculatePath ==
    \E c \in DOMAIN conn :
        /\ calculate_path(c)
        /\ UNCHANGED <<rect, FrameVars, OutVars>>

Next ==
    \/ SetEndGrip
    \/ SetSnapTarget
    \/ ClearSnapTarget
    \/ SetCurrentPos
    \/ CalculatePath

Spec == Init /\ [][Next]_vars

----------------------------------------------------------------------------
(* Redraw of the canvas: draw_connections over the finished connections,   *)
(* and update_path of a connection that is not in the list                 *)

\* four components: 1 on the left, 2 on the right, 3 above, 4 below
FrameRects ==
    << [x |-> 0, y |-> 100, w |-> 40, h |-> 40],
       [x |-> 300, y |-> 100, w |-> 40, h |-> 40],
       [x |-> 100, y |-> 0, w |-> 40, h |-> 40],
       [x |-> 100, y |-> 200, w |-> 40, h |-> 40] >>

\* <<start component, start grip, end component, end grip>>
Routes ==
    { <<1, 3, 2, 2>>,     \* 1.right -> 2.left, a horizontal run
      <<2, 2, 1, 3>>,     \* 2.left -> 1.right, the same run reversed
      <<3, 1, 4, 0>>,     \* 3.bottom -> 4.top, a vertical run
      <<1, 2, 2, 3>>,     \* 1.left -> 2.right, a detour below both
      <<2, 3, 1, 2>> }    \* 2.right -> 1.left, the same detour reversed

FramePathOffsets == { 0, 35 }

Finished(route, po) ==
    [NewConnection(route[1], route[2], GripSide(route[2])) EXCEPT
        !.end_component = route[3],
        !.end_grip_index = route[4],
        !.end_side = GripSide(route[4]),
        !.path_offset = po]

\* 1.bottom -> 2.bottom, a wide U below both whose two vertical runs lie 300
\* units apart; and 1.right -> 3.left with the end stub lengthened to 35, a
\* detour whose two vertical runs lie 5 units apart
WideU == Finished(<<1, 1, 2, 1>>, 35)
NarrowU == [Finished(<<1, 3, 3, 2>>, 35) EXCEPT !.end_adjust = 15]

\* every route with the middle where the planner puts it, the two detours
\* also with the middle dragged, and the two U-shaped routes
FinishedConnections ==
    { Finished(route, 0) : route \in Routes }
        \cup { Finished(route, po) :
                 route \in { <<1, 2, 2, 3>>, <<2, 3, 1, 2>> }, po \in FramePathOffsets }
        \cup { WideU, NarrowU }

InitFrame ==
    /\ rect = FrameRects
    /\ conn \in [1 .. MaxConn -> FinishedConnections]
    /\ connections \in { [i \in 1 .. k |-> i] : k \in 1 .. MaxConn }
    /\ pc = "idle"
    /\ idx = 0
    /\ planned = {}
    /\ composited = {}
    /\ frames = 0
    /\ painted = NotPainted
    /\ saved = NotSaved

\* draw_connections is called: the loop starts at the first connection
BeginFrame ==
    /\ pc = "idle"
    /\ frames < MaxFrames
    /\ pc' = "plan"
    /\ idx' = 1
    /\ planned' = {}
    /\ composited' = {}
    /\ UNCHANGED <<rect, conn, connections, frames, OutVars>>

FramePlanSkipped ==
    /\ pc = "plan"
    /\ pc' = "jump"
    /\ UNCHANGED <<rect, conn, connections, idx, planned, composited, frames, OutVars>>

\* conn.update_path, first half: self.calculate_path(components)
FramePlan ==
    /\ pc = "plan"
    /\ calculate_path(connections[idx])
    /\ planned' = planned \cup {idx}
    /\ pc' = "jump"
    /\ UNCHANGED <<rect, connections, idx, composited, frames, OutVars>>

\* conn.update_path, second half: self._generate_jump_path(other_connections)
FrameJump ==
    /\ pc = "jump"
    /\ generate_jump_path(connections[idx], connections)
    /\ composited' = composited \cup {idx}
    /\ pc' = "paint"
    /\ UNCHANGED <<rect, connections, idx, planned, frames, OutVars>>

\* conn.paint(painter) with the default theme and zoom, then the loop moves
\* on or draw_connections returns
FramePaint ==
    /\ pc = "paint"
    /\ painted' = paint(connections[idx], "light", 100)
    /\ IF idx < Len(connections)
       THEN /\ idx' = idx + 1
            /\ pc' = "plan"
            /\ frames' = frames
       ELSE /\ idx' = 0
            /\ pc' = "idle"
            /\ frames' = frames + 1
    /\ UNCHANGED <<rect, conn, connections, planned, composited, saved>>

\* update_path of a connection that is not (yet) in the list it is given
UpdateUnregistered ==
    /\ pc = "idle"
    /\ \E c \in DOMAIN conn :
          /\ ~ InList(c, connections)
          /\ update_path(c, connections)
    /\ UNCHANGED <<rect, connections, pc, idx, planned, composited, frames, OutVars>>

NextFrame ==
    \/ BeginFrame
    \/ FramePlan
    \/ FrameJump
    \/ FramePaint
    \/ UpdateUnregistered

SpecFrame == InitFrame /\ [][NextFrame]_vars

----------------------------------------------------------------------------
(* Saving and painting one connection while it is being edited: the end is  *)
(* bound, the route planned, the connection painted at some theme and zoom  *)
(* and serialized against some id assignment                                *)

\* path_offset 75 leaves a final segment of 5 units on the direct route to
\* the component at (200, 0), and 80 one of length zero
OutputPathOffsets == { 0, 75, 80 }

\* zoom percentages; 5 is below the smallest zoom paint works with
Zooms == { 5, 50, 100, 200 }

\* component_to_id of the save: the components' list positions, with any of
\* them missing
IdMaps == { [c \in S |-> c - 1] : S \in SUBSET {1, 2} }

\* the second component far right on the same row, or close by
OutputRects ==
    { r \in DragRects : <<r[2].x, r[2].y>> \in { <<200, 0>>, <<60, 20>> } }

OutputConnections ==
    { [c \in {1} |-> [NewConnection(1, g, GripSide(g)) EXCEPT !.path_offset = po]]
      : g \in Grips, po \in OutputPathOffsets }

InitOutput ==
    /\ rect \in OutputRects
    /\ conn \in OutputConnections
    /\ connections = <<>>
    /\ pc = "idle"
    /\ idx = 0
    /\ planned = {}
    /\ composited = {}
    /\ frames = 0
    /\ painted = NotPainted
    /\ saved = NotSaved

\* the drag ends over a grip of the second component: the end becomes bound
Drop ==
    \E c \in DOMAIN conn, g \in Grips :
        /\ conn[c].end_component = NoComp
        /\ set_end_grip(c, 2, g, GripSide(g))

Paint ==
    \E c \in DOMAIN conn, theme \in Themes, zoom \in Zooms :
        /\ painted' = paint(c, theme, zoom)
        /\ UNCHANGED <<rect, conn, FrameVars, saved>>

ToDict ==
    \E c \in DOMAIN conn, component_to_id \in IdMaps :
        /\ saved' = [of |-> c, map |-> component_to_id,
                     dict |-> to_dict(conn[c], component_to_id)]
        /\ UNCHANGED <<rect, conn, FrameVars, painted>>

NextOutput ==
    \/ Drop
    \/ CalculatePath
    \/ Paint
    \/ ToDict

SpecOutput == InitOutput /\ [][NextOutput]_vars

----------------------------------------------------------------------------
(* Claims about the planner, checked under Spec *)

\* the end anchor by the documented precedence: bound > snap > free cursor
ExpectedEnd(self) ==
    IF self.end_component # NoComp
    THEN GripPos(self.end_component, self.end_grip_index)
    ELSE IF self.snap_component # NoComp
    THEN GripPos(self.snap_component, self.snap_grip_index)
    ELSE self.current_pos

EndState(self) ==
    IF self.end_component # NoComp THEN "bound"
    ELSE IF self.snap_component # NoComp THEN "snap"
    ELSE "free"

\* p[1] -> p[2] leaves p[1] towards `side` and is at least MinStub units long
LeavesBy(p, side) ==
    /\ Len(p) >= 2
    /\ CASE side = "top" -> p[2][1] = p[1][1] /\ p[1][2] - p[2][2] >= Scale * MinStub
         [] side = "bottom" -> p[2][1] = p[1][1] /\ p[2][2] - p[1][2] >= Scale * MinStub
         [] side = "left" -> p[2][2] = p[1][2] /\ p[1][1] - p[2][1] >= Scale * MinStub
         [] OTHER -> p[2][2] = p[1][2] /\ p[2][1] - p[1][1] >= Scale * MinStub

Orthogonal(p) ==
    \A i \in 1 .. Len(p) - 1 : p[i][1] = p[i + 1][1] \/ p[i][2] = p[i + 1][2]

\* the step is calculate_path of connection c (the first conjunct, which the
\* second implies, only spares evaluating the planner on steps that change
\* another field)
PlannerStep(c) ==
    /\ [conn'[c] EXCEPT !.path = <<>>] = [conn[c] EXCEPT !.path = <<>>]
    /\ calculate_path(c)

\* C1: after calculate_path the path is non-empty, starts at the resolved
\* start anchor and ends at the resolved end anchor, for every side pair, end
\* state and adjustment.
C1_EndpointsExact ==
    [][\A c \in DOMAIN conn :
          PlannerStep(c) =>
              /\ Len(conn'[c].path) >= 2
              /\ conn'[c].path[1] = D(get_start_pos(conn[c]))
              /\ Last(conn'[c].path) = D(get_end_pos(conn[c]))]_vars

C1_Witness ==
    \E c \in DOMAIN conn :
        /\ EndState(conn[c]) = "snap"
        /\ conn[c].start_adjust < 0
        /\ Len(conn[c].path) = 6
        /\ conn[c].path[1] = D(get_start_pos(conn[c]))
        /\ Last(conn[c].path) = D(get_end_pos(conn[c]))

\* C2 as claimed: for any start_adjust, end_adjust and path_offset the first
\* segment leaves the start anchor towards the start side and is at least 10
\* units long.
C2_AsClaimed ==
    [][\A c \in DOMAIN conn :
          PlannerStep(c) => LeavesBy(conn'[c].path, conn[c].start_side)]_vars

\* C2 amended: the first segment leaves the start anchor towards the start
\* side and is at least 10 units long on every route that leaves through the
\* stub ns (for any path_offset), and on the direct midline route when
\* path_offset is 0.
C2_StubClamp ==
    [][\A c \in DOMAIN conn :
          (PlannerStep(c) /\ (Len(conn'[c].path) > 4 \/ conn[c].path_offset = 0))
              => LeavesBy(conn'[c].path, conn[c].start_side)]_vars

C2_Witness ==
    \E c \in DOMAIN conn :
        /\ conn[c].start_adjust < -20
        /\ Len(conn[c].path) > 4
        /\ conn[c].path_offset # 0
        /\ conn[c].path[1] = D(get_start_pos(conn[c]))
        /\ conn[c].path[2] = D(ns(conn[c]))
        /\ LeavesBy(conn[c].path, conn[c].start_side)

\* C7: whatever set_end_grip, set_snap_target, clear_snap_target and cursor
\* updates came before, the end anchor the planner resolves is the bound grip
\* if an end is bound, else the snap grip if a snap target is set, else the
\* cursor position.
C7_EndPrecedence ==
    [][\A c \in DOMAIN conn :
          PlannerStep(c) => Last(conn'[c].path) = D(ExpectedEnd(conn[c]))]_vars

C7_Witness ==
    \E c \in DOMAIN conn :
        /\ conn[c].end_component # NoComp
        /\ conn[c].snap_component # NoComp
        /\ conn[c].snap_grip_index # conn[c].end_grip_index
        /\ conn[c].current_pos # <<0, 0>>
        /\ conn[c].path # <<>>
        /\ Last(conn[c].path) = D(GripPos(conn[c].end_component, conn[c].end_grip_index))

\* C9: every segment of the planned route is axis-aligned.
C9_Orthogonal ==
    [][\A c \in DOMAIN conn : PlannerStep(c) => Orthogonal(conn'[c].path)]_vars

C9_Witness ==
    \E c \in DOMAIN conn :
        /\ Len(conn[c].path) = 6
        /\ conn[c].start_side = "top"
        /\ target_side(conn[c]) = "top"
        /\ EndState(conn[c]) = "free"
        /\ Orthogonal(conn[c].path)
        /\ conn[c].path[3] # conn[c].path[4]

\* C10: a step that changes a connection's path changes nothing else: not the
\* component rectangles, not the bindings, sides, cursor position or
\* adjustment scalars of any connection.
C10_PlannerFrame ==
    [][\A c \in DOMAIN conn :
          conn'[c].path # conn[c].path =>
              /\ rect' = rect
              /\ conn' = [conn EXCEPT ![c].path = conn'[c].path]]_vars

C10_Witness ==
    \E c \in DOMAIN conn :
        /\ conn[c].path # <<>>
        /\ conn[c].start_adjust = -40
        /\ conn[c].end_adjust = -40
        /\ conn[c].path_offset = 20
        /\ EndState(conn[c]) = "bound"

\* the (start side, target side) pair
SidePair(self) == <<self.start_side, target_side(self)>>

OppositePairs ==
    { <<"right", "left">>, <<"left", "right">>, <<"top", "bottom">>, <<"bottom", "top">> }

\* the clearance test as the claim words it, for the four opposite pairs
ClearanceHolds(self) ==
    LET s == get_start_pos(self)
        e == get_end_pos(self)
        os == Max(10, 30 + self.start_adjust)
        oe == Max(10, 20 + self.end_adjust)
    IN  \/ SidePair(self) = <<"right", "left">> /\ s[1] + os < e[1] - oe
        \/ SidePair(self) = <<"left", "right">> /\ e[1] + oe < s[1] - os
        \/ SidePair(self) = <<"bottom", "top">> /\ s[2] + os < e[2] - oe
        \/ SidePair(self) = <<"top", "bottom">> /\ e[2] + oe < s[2] - os

\* start, two points on the midline (start + end) / 2 + path_offset, end
IsDirectRoute(path, self) ==
    LET s == get_start_pos(self)
        e == get_end_pos(self)
    IN  /\ Len(path) = 4
        /\ IF self.start_side \in {"left", "right"}
           THEN /\ path[2] = <<s[1] + e[1] + Scale * self.path_offset, Scale * s[2]>>
                /\ path[3] = <<s[1] + e[1] + Scale * self.path_offset, Scale * e[2]>>
           ELSE /\ path[2] = <<Scale * s[1], s[2] + e[2] + Scale * self.path_offset>>
                /\ path[3] = <<Scale * e[1], s[2] + e[2] + Scale * self.path_offset>>

SharesCoordinate(p, q) == p[1] = q[1] \/ p[2] = q[2]

\* start, ns, corner, corner, pe, end
IsDetour(path, self) ==
    /\ Len(path) = 6
    /\ path[2] = D(ns(self))
    /\ path[5] = D(pe(self))
    /\ SharesCoordinate(path[2], path[3])
    /\ SharesCoordinate(path[3], path[4])
    /\ SharesCoordinate(path[4], path[5])

\* X at (0,0,40,40) leaving by its right grip, bound to the left grip of Y
\* at (200,0,40,40), no adjustments
ConcreteScenario(self) ==
    /\ rect[self.start_component] = [x |-> 0, y |-> 0, w |-> 40, h |-> 40]
    /\ self.start_grip_index = 3
    /\ self.start_side = "right"
    /\ self.end_component # NoComp
    /\ rect[self.end_component] = [x |-> 200, y |-> 0, w |-> 40, h |-> 40]
    /\ self.end_grip_index = 2
    /\ self.end_side = "left"
    /\ self.start_adjust = 0
    /\ self.end_adjust = 0
    /\ self.path_offset = 0

\* C12: for an opposite-side pair the planner takes the direct route through
\* the midline at (start + end) / 2 + path_offset exactly when the strict
\* clearance test passes, and the detour start, ns, corner, corner, pe, end
\* otherwise; X at (0,0,40,40) right grip to Y at (200,0,40,40) left grip
\* without adjustments gives (40,20), (120,20), (120,20), (200,20).
C12_OppositeTopology ==
    [][\A c \in DOMAIN conn :
          (PlannerStep(c) /\ SidePair(conn[c]) \in OppositePairs) =>
              /\ ClearanceHolds(conn[c]) => IsDirectRoute(conn'[c].path, conn[c])
              /\ ~ ClearanceHolds(conn[c]) => IsDetour(conn'[c].path, conn[c])
              /\ ConcreteScenario(conn[c]) =>
                     conn'[c].path = << D(<<40, 20>>), D(<<120, 20>>),
                                        D(<<120, 20>>), D(<<200, 20>>) >>]_vars

\* the clearance test fails by equality and the detour is taken
C12_Witness ==
    \E c \in DOMAIN conn :
        /\ SidePair(conn[c]) = <<"right", "left">>
        /\ get_start_pos(conn[c])[1] + off_start(conn[c])
               = get_end_pos(conn[c])[1] - off_end(conn[c])
        /\ IsDetour(conn[c].path, conn[c])

\* the bounding box at the end: the bound component's, else the snap
\* target's, else the 20 x 20 box centred on the free end point
EndBox(self) ==
    IF self.end_component # NoComp THEN rect[self.end_component]
    ELSE IF self.snap_component # NoComp THEN rect[self.snap_component]
    ELSE [x |-> self.current_pos[1] - 10, y |-> self.current_pos[2] - 10,
          w |-> 20, h |-> 20]

\* the coordinate of the detour line of a same-side route: the outer edge of
\* the union of the two boxes on that side, moved outwards by 20 + path_offset
OuterLine(self) ==
    LET sb == rect[self.start_component]
        eb == EndBox(self)
        margin == 20 + self.path_offset
    IN  CASE self.start_side = "right" -> Max(sb.x + sb.w, eb.x + eb.w) + margin
          [] self.start_side = "left" -> Min(sb.x, eb.x) - margin
          [] self.start_side = "top" -> Min(sb.y, eb.y) - margin
          [] OTHER -> Max(sb.y + sb.h, eb.y + eb.h) + margin

\* C13: when start side and target side are equal the route is start, ns,
\* corner, corner, pe, end with both corners on the line at the outer edge
\* of the union of the two bounding boxes on that side plus 20 + path_offset;
\* without adjustments and with both grips on the right the detour
\* x-coordinate is max(sitem.right, eitem.right) + 20.
C13_SameSideUTurn ==
    [][\A c \in DOMAIN conn :
          (PlannerStep(c) /\ conn[c].start_side = target_side(conn[c])) =>
              LET self == conn[c]
                  path == conn'[c].path
              IN  /\ Len(path) = 6
                  /\ path[1] = D(get_start_pos(self))
                  /\ path[2] = D(ns(self))
                  /\ path[5] = D(pe(self))
                  /\ path[6] = D(get_end_pos(self))
                  /\ IF self.start_side \in {"left", "right"}
                     THEN /\ path[3] = D(<<OuterLine(self), ns(self)[2]>>)
                          /\ path[4] = D(<<OuterLine(self), pe(self)[2]>>)
                     ELSE /\ path[3] = D(<<ns(self)[1], OuterLine(self)>>)
                          /\ path[4] = D(<<pe(self)[1], OuterLine(self)>>)
                  /\ ( /\ self.start_side = "right"
                       /\ self.path_offset = 0 )
                       => path[3][1]
                            = Scale * (Max(Right(rect[self.start_component]),
                                           Right(EndBox(self))) + 20)]_vars

\* a right -> right route to a bound grip with the middle dragged by 20
C13_Witness ==
    \E c \in DOMAIN conn :
        /\ conn[c].start_side = "right"
        /\ conn[c].end_side = "right"
        /\ conn[c].path_offset = 20
        /\ Len(conn[c].path) = 6
        /\ conn[c].path[3][1] = Scale * (Right(rect[2]) + 40)
        /\ conn[c].path[4][1] = Scale * (Right(rect[2]) + 40)

Horizontal == {"left", "right"}
Vertical == {"top", "bottom"}

\* one side is horizontal and the other vertical: 8 pairs
PerpendicularPairs == (Horizontal \X Vertical) \cup (Vertical \X Horizontal)

\* C14 as claimed: for each of the 8 perpendicular pairs the route has
\* exactly 2 intermediate points, ns and pe, between the start anchor and the
\* end anchor.
C14_AsClaimed ==
    [][\A c \in DOMAIN conn :
          (PlannerStep(c) /\ SidePair(conn[c]) \in PerpendicularPairs) =>
              /\ Len(conn'[c].path) = 4
              /\ conn'[c].path[2] = D(ns(conn[c]))
              /\ conn'[c].path[3] = D(pe(conn[c]))]_vars

\* C14 amended: for each of the 8 perpendicular pairs the route is start, ns,
\* corner, pe, end with exactly 3 intermediate points, the corner taking the
\* x of ns and the y of pe when the start side is horizontal, and the x of pe
\* and the y of ns when it is vertical.
C14_PerpendicularL ==
    [][\A c \in DOMAIN conn :
          (PlannerStep(c) /\ SidePair(conn[c]) \in PerpendicularPairs) =>
              LET self == conn[c]
                  path == conn'[c].path
              IN  /\ Len(path) = 5
                  /\ path[1] = D(get_start_pos(self))
                  /\ path[2] = D(ns(self))
                  /\ path[3] = IF self.start_side \in Horizontal
                               THEN D(<<ns(self)[1], pe(self)[2]>>)
                               ELSE D(<<pe(self)[1], ns(self)[2]>>)
                  /\ path[4] = D(pe(self))
                  /\ path[5] = D(get_end_pos(self))]_vars

\* a vertical start side, a horizontal target side, and a corner that is
\* neither ns nor pe
C14_Witness ==
    \E c \in DOMAIN conn :
        /\ SidePair(conn[c]) \in Vertical \X Horizontal
        /\ Len(conn[c].path) = 5
        /\ conn[c].path[2] = D(ns(conn[c]))
        /\ conn[c].path[4] = D(pe(conn[c]))
        /\ conn[c].path[3] = D(<<pe(conn[c])[1], ns(conn[c])[2]>>)
        /\ conn[c].path[3] # conn[c].path[2]
        /\ conn[c].path[3] # conn[c].path[4]

\* the guess that faces the start point: horizontally when |dx| > |dy|,
\* vertically otherwise (y grows downwards)
FacingGuess(start, end) ==
    IF Abs(end[1] - start[1]) > Abs(end[2] - start[2])
    THEN (IF end[1] > start[1] THEN "left" ELSE "right")
    ELSE (IF end[2] > start[2] THEN "top" ELSE "bottom")

\* bound end side, else snap side, else the guess
ExpectedTargetSide(self) ==
    CASE EndState(self) = "bound" -> self.end_side
      [] EndState(self) = "snap" -> self.snap_side
      [] OTHER -> FacingGuess(get_start_pos(self), ExpectedEnd(self))

\* the end anchor moved by max(10, 20 + end_adjust) towards the target side
ExpectedPe(self) ==
    LET e == ExpectedEnd(self)
        o == Max(10, 20 + self.end_adjust)
        t == ExpectedTargetSide(self)
    IN  CASE t = "top" -> <<e[1], e[2] - o>>
          [] t = "bottom" -> <<e[1], e[2] + o>>
          [] t = "left" -> <<e[1] - o, e[2]>>
          [] OTHER -> <<e[1] + o, e[2]>>

\* C17: the target side is the bound end side if the end is bound, else the
\* snap target's side if one is set, else the guess facing the start point
\* (|dx| > |dy|: left when the end is right of the start, right otherwise;
\* else top when the end is below the start, bottom otherwise); and pe, the
\* waypoint before the end anchor on every route but the direct one, is the
\* end anchor moved by max(10, 20 + end_adjust) towards that side.
C17_TargetSide ==
    [][\A c \in DOMAIN conn :
          PlannerStep(c) =>
              /\ target_side(conn[c]) = ExpectedTargetSide(conn[c])
              /\ pe(conn[c]) = ExpectedPe(conn[c])
              /\ Len(conn'[c].path) > 4 =>
                     conn'[c].path[Len(conn'[c].path) - 1] = D(ExpectedPe(conn[c]))]_vars

\* a free end below the start: the guess is top and pe lies above the end
C17_Witness ==
    \E c \in DOMAIN conn :
        /\ EndState(conn[c]) = "free"
        /\ conn[c].current_pos = <<30, 300>>
        /\ conn[c].end_adjust = -40
        /\ Len(conn[c].path) > 4
        /\ conn[c].path[Len(conn[c].path) - 1] = D(<<30, 290>>)

----------------------------------------------------------------------------
(* Claims about the redraw, checked under SpecFrame *)

FrameDone == pc = "idle" /\ frames >= 1

\* n / d lies strictly between 0 and 1
StrictlyInUnit(n, d) == IF d > 0 THEN 0 < n /\ n < d ELSE d < n /\ n < 0

\* the two segments cross at a point strictly inside both
TrueCrossing(p1, p2, op1, op2) ==
    LET ax == p2[1] - p1[1]
        ay == p2[2] - p1[2]
        bx == op1[1] - op2[1]
        by == op1[2] - op2[2]
        cx == p1[1] - op1[1]
        cy == p1[2] - op1[2]
        den == ay * bx - ax * by
    IN  /\ den # 0
        /\ StrictlyInUnit(by * cx - bx * cy, den)
        /\ StrictlyInUnit(ax * cy - ay * cx, den)

Segs(path) == 1 .. Len(path) - 1

\* pairs <<segment of b, segment of a>> that cross strictly inside both
TrueCrossings(b, a) ==
    { ij \in Segs(conn[b].path) \X Segs(conn[a].path) :
        TrueCrossing(conn[b].path[ij[1]], conn[b].path[ij[1] + 1],
                     conn[a].path[ij[2]], conn[a].path[ij[2] + 1]) }

\* pairs <<segment of b, segment of a>> that meet at all (ends included)
Meetings(b, a) ==
    { ij \in Segs(conn[b].path) \X Segs(conn[a].path) :
        Bounded(conn[b].path[ij[1]], conn[b].path[ij[1] + 1],
                conn[a].path[ij[2]], conn[a].path[ij[2] + 1]) }

CrossDist(b, a, ij) ==
    HitDist(conn[b].path[ij[1]], conn[b].path[ij[1] + 1],
            conn[a].path[ij[2]], conn[a].path[ij[2] + 1])

CrossPoint(b, a, ij) ==
    Along(conn[b].path[ij[1]],
          Unit(conn[b].path[ij[1]], conn[b].path[ij[1] + 1]),
          CrossDist(b, a, ij))

IsArc(op) == op[1] = "arcTo"

Arcs(curve) == SelectSeq(curve, IsArc)

\* the arcs of the curve are exactly one arc centred at pt
OneArcAt(curve, pt) == Len(Arcs(curve)) = 1 /\ Arcs(curve)[1][2] = pt

ClearOfCorners(b, a, ij) ==
    /\ R < CrossDist(b, a, ij)
    /\ CrossDist(b, a, ij)
           < SegLength(conn[b].path[ij[1]], conn[b].path[ij[1] + 1]) - R

\* the connection at list index j meets no connection before it in the list
\* other than the one at index i
MeetsNoOtherEarlier(j, i) ==
    \A k \in 1 .. j - 1 : k # i => Meetings(connections[j], connections[k]) = {}

C4_AsClaimed ==
    (pc = "jump" \/ composited # {}) => planned = 1 .. Len(connections)

\* C4 amended: within one frame the connections are updated one at a time in
\* list order: when the compositor runs for the connection at index i the
\* planner has run for exactly the connections at indexes 1..i and the
\* compositor for exactly those at 1..i-1.
C4_PlanBeforeOwnJump ==
    /\ composited \subseteq planned
    /\ pc = "plan" => planned = 1 .. idx - 1 /\ composited = 1 .. idx - 1
    /\ pc = "jump" => planned = 1 .. idx /\ composited = 1 .. idx - 1
    /\ pc = "paint" => planned = 1 .. idx /\ composited = 1 .. idx

C4_Witness ==
    /\ pc = "jump"
    /\ idx = 2
    /\ planned = {1, 2}
    /\ composited = {1}

\* the curve of a path without any jump
RECURSIVE RawFrom(_, _)
RawFrom(path, i) ==
    IF i > Len(path) - 1 THEN <<>>
    ELSE (IF 10 * SegLength(path[i], path[i + 1]) < Scale * 1
          THEN <<>>
          ELSE << <<"lineTo", path[i + 1]>> >>) \o RawFrom(path, i + 1)

RawPolyline(path) ==
    IF path = <<>> THEN <<>> ELSE << <<"moveTo", path[1]>> >> \o RawFrom(path, 1)

\* C5 as claimed: the curve of a connection that is not in the list it is
\* composited against has no jump arcs, whatever the sibling paths are.
C5_AsClaimed ==
    \A c \in DOMAIN conn :
        ~ InList(c, connections) => Arcs(conn[c].painter_path) = <<>>

\* the path of c crosses a listed path farther than the jump radius from
\* both ends of c's own segment
CrossesListed(cs, c) ==
    \E k \in 1 .. Len(connections) :
        \E i \in Segs(cs[c].path), j \in Segs(cs[connections[k]].path) :
            /\ Bounded(cs[c].path[i], cs[c].path[i + 1],
                       cs[connections[k]].path[j], cs[connections[k]].path[j + 1])
            /\ R < HitDist(cs[c].path[i], cs[c].path[i + 1],
                           cs[connections[k]].path[j], cs[connections[k]].path[j + 1])
            /\ HitDist(cs[c].path[i], cs[c].path[i + 1],
                       cs[connections[k]].path[j], cs[connections[k]].path[j + 1])
                   < SegLength(cs[c].path[i], cs[c].path[i + 1]) - R

\* C5 amended: a connection that is not in the list it is composited against
\* yields to every connection of the list: its curve is the raw waypoint
\* polyline exactly when its path crosses no listed path farther than 6 units
\* from the ends of its own segment, and has jump arcs otherwise.
C5_UnregisteredYields ==
    [][\A c \in DOMAIN conn :
          (~ InList(c, connections) /\ update_path(c, connections)) =>
              /\ CrossesListed(conn', c) => Arcs(conn'[c].painter_path) # <<>>
              /\ ~ CrossesListed(conn', c)
                     => conn'[c].painter_path = RawPolyline(conn'[c].path)]_vars

C5_Witness ==
    \E c \in DOMAIN conn :
        /\ ~ InList(c, connections)
        /\ CrossesListed(conn, c)
        /\ Len(Arcs(conn[c].painter_path)) = 1

\* C6: once a frame has completed, a further frame over unchanged inputs
\* changes neither the waypoints nor the curve of any listed connection.
C6_Idempotent ==
    [][frames >= 1 =>
          \A k \in 1 .. Len(connections) :
              /\ conn'[connections[k]].path = conn[connections[k]].path
              /\ conn'[connections[k]].painter_path
                     = conn[connections[k]].painter_path]_vars

C6_Witness ==
    /\ pc = "idle"
    /\ frames = 2
    /\ \E k \in 1 .. Len(connections) : Arcs(conn[connections[k]].painter_path) # <<>>

\* b is a with the start and end roles swapped, same adjustment scalars
IsSwapOf(b, a) ==
    /\ b.start_component = a.end_component
    /\ b.start_grip_index = a.end_grip_index
    /\ b.start_side = a.end_side
    /\ b.end_component = a.start_component
    /\ b.end_grip_index = a.start_grip_index
    /\ b.end_side = a.start_side
    /\ b.path_offset = a.path_offset
    /\ b.start_adjust = a.start_adjust
    /\ b.end_adjust = a.end_adjust

OppositeSides(a) ==
    \/ a.start_side = "right" /\ a.end_side = "left"
    \/ a.start_side = "left" /\ a.end_side = "right"
    \/ a.start_side = "top" /\ a.end_side = "bottom"
    \/ a.start_side = "bottom" /\ a.end_side = "top"

\* C8: for an opposite-side pair, the waypoints of the connection with start
\* and end roles swapped are the reversed waypoints of the original, whether
\* the clearance test passes or fails.
C8_MirrorSymmetry ==
    FrameDone =>
        \A i, j \in 1 .. Len(connections) :
            ( /\ OppositeSides(conn[connections[i]])
              /\ IsSwapOf(conn[connections[j]], conn[connections[i]]) )
                => conn[connections[j]].path = Reverse(conn[connections[i]].path)

\* the draw operations the compositor emits for segment i of the listed
\* connection c, given the paths as they are
EmittedOn(c, i) ==
    LET p1 == conn[c].path[i]
        p2 == conn[c].path[i + 1]
    IN  IF 10 * SegLength(p1, p2) < Scale * 1 THEN <<>>
        ELSE SegmentOps(p1, p2,
                 CleanIntersections(Intersections(conn, c, p1, p2, connections)),
                 1, 0)

RECURSIVE EmittedFrom(_, _)
EmittedFrom(c, i) ==
    IF i > Len(conn[c].path) - 1 THEN <<>>
    ELSE EmittedOn(c, i) \o EmittedFrom(c, i + 1)

\* the curve of c is the moveTo followed by what is emitted segment by segment
CurveBySegments(c) ==
    /\ conn[c].path # <<>>
    /\ conn[c].painter_path
           = << <<"moveTo", conn[c].path[1]>> >> \o EmittedFrom(c, 1)

\* distances from the segment's start of the centres of the arcs emitted on
\* segment i of c, in the order of emission
ArcDistances(c, i) ==
    LET arcs == Arcs(EmittedOn(c, i))
    IN  [k \in 1 .. Len(arcs) |-> SegLength(conn[c].path[i], arcs[k][2])]

Listed == { connections[k] : k \in 1 .. Len(connections) }

\* the arc is centred on a segment of the path, farther than 6 units from
\* both of its ends
CentredInsideSegment(arc, path) ==
    \E i \in Segs(path) :
        LET d == SegLength(path[i], arc[2])
        IN  /\ arc[2] = Along(path[i], Unit(path[i], path[i + 1]), d)
            /\ Scale * 6 < d
            /\ d < SegLength(path[i], path[i + 1]) - Scale * 6

\* C15: every jump arc emitted on a segment is centred on the segment at a
\* distance d from its start with r < d < length - r (r = 6), so both ends of
\* the arc, at d - r and d + r, lie strictly inside the segment; and a segment
\* shorter than 0.1 units gets no arc.
C15_CornerFilter ==
    /\ \A c \in DOMAIN conn :
          \A k \in 1 .. Len(Arcs(conn[c].painter_path)) :
              CentredInsideSegment(Arcs(conn[c].painter_path)[k], conn[c].path)
    /\ FrameDone =>
        \A c \in Listed :
            /\ CurveBySegments(c)
            /\ \A i \in Segs(conn[c].path) :
                  LET p1 == conn[c].path[i]
                      p2 == conn[c].path[i + 1]
                      length == SegLength(p1, p2)
                      arcs == Arcs(EmittedOn(c, i))
                      dists == [k \in 1 .. Len(arcs) |-> SegLength(p1, arcs[k][2])]
                  IN  /\ 10 * length < Scale * 1 => arcs = <<>>
                      /\ \A k \in 1 .. Len(arcs) :
                            /\ arcs[k][2] = Along(p1, Unit(p1, p2), dists[k])
                            /\ Scale * 6 < dists[k]
                            /\ dists[k] < length - Scale * 6
                            /\ 0 < dists[k] - Scale * 6
                            /\ dists[k] + Scale * 6 < length

\* a listed connection meets an earlier one within 6 units of a corner of
\* its own route, and its curve has an arc elsewhere but none there
C15_Witness ==
    /\ FrameDone
    /\ \E c \in Listed :
          /\ Arcs(conn[c].painter_path) # <<>>
          /\ \E i \in Segs(conn[c].path) :
                /\ Arcs(EmittedOn(c, i)) = <<>>
                /\ \E a \in Listed :
                      /\ YieldsTo(c, a, connections)
                      /\ \E j \in Segs(conn[a].path) :
                            Bounded(conn[c].path[i], conn[c].path[i + 1],
                                    conn[a].path[j], conn[a].path[j + 1])

\* the distances at which segment i of c meets the connections it yields to,
\* kept by the corner filter written out with r = 6
FilteredCrossings(c, i) ==
    LET p1 == conn[c].path[i]
        p2 == conn[c].path[i + 1]
    IN  { HitDist(p1, p2, conn[a].path[j], conn[a].path[j + 1]) :
            <<a, j>> \in
              { aj \in UNION { {a} \X Segs(conn[a].path) : a \in Listed } :
                  /\ YieldsTo(c, aj[1], connections)
                  /\ Bounded(p1, p2, conn[aj[1]].path[aj[2]], conn[aj[1]].path[aj[2] + 1])
                  /\ Scale * 6 < HitDist(p1, p2, conn[aj[1]].path[aj[2]],
                                         conn[aj[1]].path[aj[2] + 1])
                  /\ HitDist(p1, p2, conn[aj[1]].path[aj[2]], conn[aj[1]].path[aj[2] + 1])
                         < SegLength(p1, p2) - Scale * 6 } }

\* C16: on each segment the arcs are emitted in strictly increasing distance
\* from the segment's start, their centres are pairwise more than 2.2 * r
\* apart, no two of them overlap, and every crossing is either an arc centre
\* or merged into the arc at most 2.2 * r before it.
C16_ArcMerging ==
    FrameDone =>
        \A c \in Listed :
            /\ CurveBySegments(c)
            /\ \A i \in Segs(conn[c].path) :
                  LET dists == ArcDistances(c, i)
                      crossings == FilteredCrossings(c, i)
                  IN  /\ \A k \in 1 .. Len(dists) - 1 : dists[k] < dists[k + 1]
                      /\ \A k, m \in 1 .. Len(dists) :
                            k # m => 10 * Abs(dists[k] - dists[m]) > 22 * Scale * 6
                      /\ \A k, m \in 1 .. Len(dists) :
                            k < m => dists[k] + Scale * 6 < dists[m] - Scale * 6
                      /\ \A k \in 1 .. Len(dists) : dists[k] \in crossings
                      /\ \A d \in crossings :
                            \E k \in 1 .. Len(dists) :
                                /\ dists[k] <= d
                                /\ 10 * (d - dists[k]) <= 22 * Scale * 6

\* a segment that meets an earlier connection at two distances 5 units
\* apart and carries a single arc, at the first of them
C16_Witness ==
    /\ FrameDone
    /\ \E c \in Listed :
          \E i \in Segs(conn[c].path) :
              /\ Len(ArcDistances(c, i)) = 1
              /\ \E d \in FilteredCrossings(c, i) :
                    /\ d = ArcDistances(c, i)[1] + Scale * 5
                    /\ FilteredCrossings(c, i) = {ArcDistances(c, i)[1], d}
              /\ Len(Arcs(conn[c].painter_path)) = 1

\* QPainterPath.arcTo: the point of the circle of radius r around centre at
\* angle a, angles counter-clockwise from 3 o'clock with y growing downwards
PointAtAngle(centre, r, a) ==
    LET n == ((a % 360) + 360) % 360
    IN  CASE n = 0 -> <<centre[1] + r, centre[2]>>
          [] n = 90 -> <<centre[1], centre[2] - r>>
          [] n = 180 -> <<centre[1] - r, centre[2]>>
          [] OTHER -> <<centre[1], centre[2] + r>>

\* where a draw operation begins (an arc) and where it leaves the pen
ArcStart(op) == PointAtAngle(op[2], Scale * 6, op[3])
ArcEnd(op) == PointAtAngle(op[2], Scale * 6, op[3] + op[4])
EndOf(op) == IF IsArc(op) THEN ArcEnd(op) ELSE op[2]

\* the waypoints path[i..] are ends of moveTo / lineTo operations of
\* curve[k..], in this order (waypoints that coincide share an operation)
RECURSIVE VisitsFrom(_, _, _, _)
VisitsFrom(curve, k, path, i) ==
    IF i > Len(path) THEN TRUE
    ELSE IF k > Len(curve) THEN FALSE
    ELSE IF ~ IsArc(curve[k]) /\ curve[k][2] = path[i]
         THEN VisitsFrom(curve, k, path, i + 1)
         ELSE VisitsFrom(curve, k + 1, path, i)

AllPlanned ==
    [c \in DOMAIN conn |->
        IF c \in Listed THEN [conn[c] EXCEPT !.path = PlanPath(conn[c])] ELSE conn[c]]

\* C20: when the compositor runs for the connection at list index idx, every
\* sibling whose waypoints it reads has a smaller list index and was planned
\* earlier in the same frame; and when a frame is over the curve of every
\* listed connection is the one a two-pass update (plan all, then composite
\* all) produces.
C20_InterleavedEqualsTwoPass ==
    /\ pc = "jump" =>
          \A k \in 1 .. Len(connections) :
              YieldsTo(connections[idx], connections[k], connections)
                  => k < idx /\ k \in planned
    /\ FrameDone =>
          LET two_pass == AllPlanned
          IN  \A c \in Listed :
                  /\ conn[c].path = two_pass[c].path
                  /\ conn[c].painter_path = JumpPath(two_pass, c, connections)

\* the first frame is over and the second listed connection jumps the first
C20_Witness ==
    /\ pc = "idle"
    /\ frames = 1
    /\ Len(connections) = 2
    /\ Arcs(conn[connections[2]].painter_path) # <<>>
    /\ Arcs(conn[connections[1]].painter_path) = <<>>

----------------------------------------------------------------------------
(* Claims about to_dict and paint, checked under SpecOutput *)

SavedFields ==
    { "start_id", "start_grip", "start_side", "end_id", "end_grip", "end_side",
      "path_offset", "start_adjust", "end_adjust" }

\* the id a component reference serializes as: its entry in the id
\* assignment, -1 when it has none
SerializedId(map, component) ==
    IF \E k \in DOMAIN map : k = component THEN map[component] ELSE -1

\* C11: a to_dict call returns a record with exactly the nine fields start
\* id, start grip, start side, end id, end grip, end side, path_offset,
\* start_adjust, end_adjust; a start or end reference (an unbound end
\* included) that the id assignment does not hold serializes as -1; the
\* record has no waypoints and no curve; and the call changes no component
\* and no field of any connection.
C11_Serialization ==
    [][saved' # saved =>
          LET self == conn[saved'.of]
              dict == saved'.dict
          IN  /\ DOMAIN dict = SavedFields
              /\ dict.start_id = SerializedId(saved'.map, self.start_component)
              /\ dict.end_id = SerializedId(saved'.map, self.end_component)
              /\ self.end_component = NoComp => dict.end_id = -1
              /\ dict.start_grip = self.start_grip_index
              /\ dict.start_side = self.start_side
              /\ dict.end_grip = self.end_grip_index
              /\ dict.end_side = self.end_side
              /\ dict.path_offset = self.path_offset
              /\ dict.start_adjust = self.start_adjust
              /\ dict.end_adjust = self.end_adjust
              /\ conn' = conn
              /\ rect' = rect]_vars

\* a planned connection with a bound end whose end component the id
\* assignment does not hold, while it holds the start component
C11_Witness ==
    /\ saved # NotSaved
    /\ conn[saved.of].path # <<>>
    /\ conn[saved.of].end_component = 2
    /\ DOMAIN saved.map = {1}
    /\ saved.dict.start_id = 0
    /\ saved.dict.end_id = -1

\* the path of the connection a paint call p was made for, and its final
\* segment
PaintedPath(p) == conn[p.of].path
PEnd(p) == PaintedPath(p)[Len(PaintedPath(p))]
PPrev(p) == PaintedPath(p)[Len(PaintedPath(p)) - 1]

\* the arrow tip handed to the painter
PTip(p) == p.arrow[2][2]

\* the theme's visual gap
Gap(theme) == IF theme = "dark" THEN 10 ELSE 4

\* the tip lies on the final segment, t away from the end waypoint, where
\* t is 0 if the final segment is shorter than gap / z and gap / z otherwise
\* (z a zoom percentage; lengths in stored coordinates)
TipRetractedBy(p, z) ==
    LET l == SegLength(PPrev(p), PEnd(p))
        t == SegLength(PTip(p), PEnd(p))
    IN  /\ PTip(p) = Along(PEnd(p), Unit(PPrev(p), PEnd(p)), -t)
        /\ t <= l
        /\ IF l * z < Scale * Gap(p.theme) * 100
           THEN t = 0
           ELSE t * z = Scale * Gap(p.theme) * 100

\* no arrow for a path without a final segment or with one of length zero
NoArrowWithoutSegment(p) ==
    (Len(PaintedPath(p)) < 2 \/ PEnd(p) = PPrev(p)) <=> p.arrow = <<>>

\* C19 as claimed: on a paint call the tip is the end waypoint retracted
\* along the final segment by the theme's gap (10 dark, 4 light) divided by
\* zoom, or not retracted when the final segment is shorter than that; no
\* arrow when the final segment has zero length.
C19_AsClaimed ==
    [][painted' # painted =>
          /\ NoArrowWithoutSegment(painted')
          /\ painted'.arrow # <<>> => TipRetractedBy(painted', painted'.zoom)]_vars

\* C19 amended: the same with the gap divided by max(0.1, zoom): the tip is
\* the end waypoint retracted along the final segment by gap / max(0.1, zoom),
\* or not retracted when the final segment is shorter than that, so it lies
\* between the second-to-last and the last waypoint; no arrow when the final
\* segment has zero length.
C19_ArrowRetraction ==
    [][painted' # painted =>
          /\ NoArrowWithoutSegment(painted')
          /\ painted'.arrow # <<>>
                 => TipRetractedBy(painted', Max(10, painted'.zoom))]_vars

\* a final segment of 5 units painted dark at zoom 1: shorter than the gap of
\* 10, so the tip stays on the end waypoint
C19_Witness ==
    /\ painted # NotPainted
    /\ painted.theme = "dark"
    /\ painted.zoom = 100
    /\ painted.arrow # <<>>
    /\ SegLength(PPrev(painted), PEnd(painted)) = Scale * 5
    /\ PTip(painted) = PEnd(painted)

====
